---- MODULE Spec2Model ----
(***************************************************************************)
(* Yale football schedule scraper (src/Script.py): the date/time           *)
(* normaliser parse_date_time, the scraper scrape_schedule, the calendar   *)
(* writer create_calendar and the refresh paths (startup, daily trigger,   *)
(* /season/<year>) with the feed handler /calendar.ics.                    *)
(*                                                                         *)
(* Text is a sequence of one-character strings, so that the substring      *)
(* tests, splits and regular expressions of the source are computed and    *)
(* not assumed.                                                            *)
(***************************************************************************)
EXTENDS Integers, Sequences, FiniteSets, TLC

VARIABLES now, pc, calfile, before, lastGood, last, args, ret

vars == <<now, pc, calfile, before, lastGood, last, args, ret>>

(***************************************************************************)
(* Python text primitives                                                  *)
(***************************************************************************)
Chars(s) == [i \in 1..Len(s) |-> SubSeq(s, i, i)]

UpperAlpha == Chars("ABCDEFGHIJKLMNOPQRSTUVWXYZ")
LowerAlpha == Chars("abcdefghijklmnopqrstuvwxyz")
Digits == Chars("0123456789")

\* Python None where a str is expected: a value no text is equal to.
PyNone == <<"None">>

UpperSet ==
    {"A", "B", "C", "D", "E", "F", "G", "H", "I", "J", "K", "L", "M",
     "N", "O", "P", "Q", "R", "S", "T", "U", "V", "W", "X", "Y", "Z"}
LowerSet ==
    {"a", "b", "c", "d", "e", "f", "g", "h", "i", "j", "k", "l", "m",
     "n", "o", "p", "q", "r", "s", "t", "u", "v", "w", "x", "y", "z"}
DigitSet == {"0", "1", "2", "3", "4", "5", "6", "7", "8", "9"}

IsUpper(c) == c \in UpperSet
IsLower(c) == c \in LowerSet
AlphaSet == UpperSet \cup LowerSet
IsAlpha(c) == c \in AlphaSet
IsDigit(c) == c \in DigitSet
SpaceSet == {" ", "\t", "\n"}
IsSpace(c) == c \in SpaceSet
\* \w of the re module
IsWord(c) == IsAlpha(c) \/ IsDigit(c) \/ c = "_"

DigitValue == [c \in DigitSet |-> (CHOOSE i \in DOMAIN Digits : Digits[i] = c) - 1]
DigitVal(c) == DigitValue[c]

ToLower == [c \in UpperSet |-> LowerAlpha[CHOOSE i \in DOMAIN UpperAlpha : UpperAlpha[i] = c]]
ToUpper == [c \in LowerSet |-> UpperAlpha[CHOOSE i \in DOMAIN LowerAlpha : LowerAlpha[i] = c]]

LowerChar(c) == IF IsUpper(c) THEN ToLower[c] ELSE c
UpperChar(c) == IF IsLower(c) THEN ToUpper[c] ELSE c

\* str.lower(), str.upper()
Lower(t) == [i \in 1..Len(t) |-> LowerChar(t[i])]
Upper(t) == [i \in 1..Len(t) |-> UpperChar(t[i])]

\* t[i:] with i counted from 1 (the text from position i on)
From(t, i) == SubSeq(t, i, Len(t))

\* does sub occur in t at position i
MatchAt(sub, t, i) ==
    /\ i >= 1
    /\ i + Len(sub) - 1 <= Len(t)
    /\ SubSeq(t, i, i + Len(sub) - 1) = sub

\* str.find counted from 1: the first position of sub in t, 0 when absent
RECURSIVE FindFrom(_, _, _)
FindFrom(sub, t, i) ==
    IF i + Len(sub) - 1 > Len(t) THEN 0
    ELSE IF MatchAt(sub, t, i) THEN i
    ELSE FindFrom(sub, t, i + 1)

Find(sub, t) == FindFrom(sub, t, 1)

\* sub in t
Contains(sub, t) == Find(sub, t) # 0

\* str.strip()
RECURSIVE LStrip(_)
LStrip(t) == IF t # <<>> /\ IsSpace(Head(t)) THEN LStrip(Tail(t)) ELSE t
RECURSIVE RStrip(_)
RStrip(t) ==
    IF t # <<>> /\ IsSpace(t[Len(t)]) THEN RStrip(SubSeq(t, 1, Len(t) - 1)) ELSE t
Strip(t) == RStrip(LStrip(t))

\* str.split(sep) for a one-character separator
RECURSIVE Split(_, _)
Split(t, sep) ==
    LET p == Find(<<sep>>, t)
    IN  IF p = 0 THEN <<t>>
        ELSE <<SubSeq(t, 1, p - 1)>> \o Split(From(t, p + 1), sep)

\* str.replace(old, new) for a non-empty old
RECURSIVE Replace(_, _, _)
Replace(t, old, new) ==
    LET p == Find(old, t)
    IN  IF p = 0 THEN t
        ELSE SubSeq(t, 1, p - 1) \o new \o Replace(From(t, p + Len(old)), old, new)

RECURSIVE DigitsValue(_)
DigitsValue(t) ==
    IF t = <<>> THEN 0
    ELSE 10 * DigitsValue(SubSeq(t, 1, Len(t) - 1)) + DigitVal(t[Len(t)])

AllDigits(t) == t # <<>> /\ \A i \in DOMAIN t : IsDigit(t[i])

\* int(t): surrounding whitespace and one sign are accepted; anything else
\* raises ValueError, here ok = FALSE.  (Underscore digit separators and
\* non-ASCII digits are outside the alphabet of the inputs.)
PyInt(t) ==
    LET Unsigned(body, sign) ==
            IF AllDigits(body) THEN [ok |-> TRUE, val |-> sign * DigitsValue(body)]
            ELSE [ok |-> FALSE, val |-> 0]
        Signed(s) ==
            IF s # <<>> /\ Head(s) \in {"+", "-"}
            THEN Unsigned(Tail(s), IF Head(s) = "-" THEN 0 - 1 ELSE 1)
            ELSE Unsigned(s, 1)
    IN  Signed(Strip(t))

\* the end (last position) of the maximal run of characters of the class cs
\* that starts at position i; i - 1 when the run is empty
RECURSIVE RunEnd(_, _, _)
RunEnd(cs, t, i) ==
    IF i <= Len(t) /\ t[i] \in cs THEN RunEnd(cs, t, i + 1) ELSE i - 1

\* \b of the re module between positions i - 1 and i
WordBoundary(t, i) ==
    LET l == i - 1 >= 1 /\ i - 1 <= Len(t) /\ IsWord(t[i - 1])
        r == i >= 1 /\ i <= Len(t) /\ IsWord(t[i])
    IN  l # r

(***************************************************************************)
(* Regular expressions of parse_date_time, each computed as re.search      *)
(* computes it: the leftmost match, greedy quantifiers.                    *)
(***************************************************************************)
NoMatch == [ok |-> FALSE, text |-> <<>>]

\* the shortest-position element of a non-empty set of positions
MinPos(S) == CHOOSE i \in S : \A j \in S : i <= j

\* r'\b(\d{1,2})\b' matched at position i: the length matched, 0 when none
DayLenAt(t, i) ==
    IF ~(i <= Len(t) /\ IsDigit(t[i]) /\ WordBoundary(t, i)) THEN 0
    ELSE IF i + 1 <= Len(t) /\ IsDigit(t[i + 1]) /\ WordBoundary(t, i + 2) THEN 2
    ELSE IF WordBoundary(t, i + 1) THEN 1
    ELSE 0

\* re.search(r'\b(\d{1,2})\b', t): group(1)
SearchDay(t) ==
    LET At(i) == [ok |-> TRUE, text |-> SubSeq(t, i, i + DayLenAt(t, i) - 1)]
        First(hits) == IF hits = {} THEN NoMatch ELSE At(MinPos(hits))
    IN  First({i \in 1..Len(t) : DayLenAt(t, i) > 0})

YearAt(t, i) ==
    /\ i + 3 <= Len(t)
    /\ WordBoundary(t, i)
    /\ t[i] = "2" /\ t[i + 1] = "0"
    /\ IsDigit(t[i + 2]) /\ IsDigit(t[i + 3])
    /\ WordBoundary(t, i + 4)

\* re.search(r'\b(20\d{2})\b', t): group(1)
SearchYear(t) ==
    LET At(i) == [ok |-> TRUE, text |-> SubSeq(t, i, i + 3)]
        First(hits) == IF hits = {} THEN NoMatch ELSE At(MinPos(hits))
    IN  First({i \in 1..Len(t) : YearAt(t, i)})

\* [AP]M at position i
MeridiemAt(t, i) == i + 1 <= Len(t) /\ t[i] \in {"A", "P"} /\ t[i + 1] = "M"

\* r'(\d+:?\d*\s*[AP]M)' matched at position i: the last position matched, 0
\* when none.  The digit runs and the blank run are maximal in every match,
\* because the next item of the pattern accepts no digit (no blank).
ClockEndAt(t, i) ==
    LET Meridiem(sp) == IF MeridiemAt(t, sp + 1) THEN sp + 2 ELSE 0
        Blanks(d2) == Meridiem(RunEnd(SpaceSet, t, d2 + 1))
        Minutes(d1) ==
            Blanks(IF d1 + 1 <= Len(t) /\ t[d1 + 1] = ":"
                   THEN RunEnd(DigitSet, t, d1 + 2) ELSE d1)
    IN  IF ~(i <= Len(t) /\ IsDigit(t[i])) THEN 0
        ELSE Minutes(RunEnd(DigitSet, t, i))

\* re.search(r'(\d+:?\d*\s*[AP]M)', t): group(1)
SearchClock(t) ==
    LET At(i) == [ok |-> TRUE, text |-> SubSeq(t, i, ClockEndAt(t, i))]
        First(hits) == IF hits = {} THEN NoMatch ELSE At(MinPos(hits))
    IN  First({i \in 1..Len(t) : ClockEndAt(t, i) > 0})

\* r'(\d+)\s*[AP]M' matched at position i: the last digit of group(1), 0 when none
HourEndAt(t, i) ==
    LET Meridiem(d1, sp) == IF MeridiemAt(t, sp + 1) THEN d1 ELSE 0
        Blanks(d1) == Meridiem(d1, RunEnd(SpaceSet, t, d1 + 1))
    IN  IF ~(i <= Len(t) /\ IsDigit(t[i])) THEN 0
        ELSE Blanks(RunEnd(DigitSet, t, i))

\* re.search(r'(\d+)\s*[AP]M', t): group(1)
SearchHour(t) ==
    LET At(i) == [ok |-> TRUE, text |-> SubSeq(t, i, HourEndAt(t, i))]
        First(hits) == IF hits = {} THEN NoMatch ELSE At(MinPos(hits))
    IN  First({i \in 1..Len(t) : HourEndAt(t, i) > 0})

(***************************************************************************)
(* datetime                                                                *)
(***************************************************************************)
None == [tag |-> "None"]
\* an exception on its way out of the block that raised it
Raised == [tag |-> "raised"]

IsLeap(y) == (y % 4 = 0 /\ y % 100 # 0) \/ y % 400 = 0

DaysInMonth(y, m) ==
    IF m = 2 THEN (IF IsLeap(y) THEN 29 ELSE 28)
    ELSE IF m \in {4, 6, 9, 11} THEN 30
    ELSE 31

\* datetime.datetime(year, month, day, hour, minute): Raised is the
\* ValueError of the constructor
datetime(year, month, day, hour, minute) ==
    IF /\ year \in 1..9999
       /\ month \in 1..12
       /\ day >= 1 /\ day <= DaysInMonth(year, month)
       /\ hour \in 0..23
       /\ minute \in 0..59
    THEN [tag |-> "datetime", year |-> year, month |-> month, day |-> day,
          hour |-> hour, minute |-> minute]
    ELSE Raised

(***************************************************************************)
(* parse_date_time(date_str, time_str), src/Script.py 38-213.  The clock   *)
(* datetime.datetime.now() is the variable now = [year, month].            *)
(***************************************************************************)
DefaultHour == 13
DefaultMinute == 0

\* lines 43-52: the season year parse_date_time works with
football_season_year ==
    IF now.month >= 2 THEN now.year ELSE now.year - 1

weekdays ==
    <<Chars("monday"), Chars("tuesday"), Chars("wednesday"), Chars("thursday"),
      Chars("friday"), Chars("saturday"), Chars("sunday")>>

\* lines 62-71: a blank is inserted after the first weekday name (in the
\* order of the list) that is directly followed by a non-blank character
RECURSIVE SplitWeekday(_, _)
SplitWeekday(date_str, k) ==
    LET Insert(day_pos) ==
            SubSeq(date_str, 1, day_pos) \o <<" ">> \o From(date_str, day_pos + 1)
        Ends(p, day_pos) ==
            IF p # 0 /\ day_pos < Len(date_str) /\ date_str[day_pos + 1] # " "
            THEN Insert(day_pos)
            ELSE SplitWeekday(date_str, k + 1)
        Found(day, p) == Ends(p, p + Len(day) - 1)
        Day(day) == Found(day, Find(day, Lower(date_str)))
        Days(days) == IF k > Len(days) THEN date_str ELSE Day(days[k])
    IN  Days(weekdays)

\* an int that may still be None
Absent == [some |-> FALSE, val |-> 0]
Some(v) == [some |-> TRUE, val |-> v]

\* SlashYear with the two-digit year read in the last century
SlashYearCentury1900(year) == IF year < 100 THEN year + 1900 ELSE year

\* lines 89-90: a year below 100 is a year of this century
SlashYear(year) == IF year < 100 THEN year + 2000 ELSE year

\* lines 82-92: MM/DD[/YYYY]; a ValueError leaves what was assigned before it
SlashDate(date_str) ==
    LET Year(y) == IF y.ok THEN Some(SlashYear(y.val)) ELSE Absent
        Ints(parts, m, d) ==
            IF ~m.ok THEN [month |-> Absent, day |-> Absent, year |-> Absent]
            ELSE IF ~d.ok THEN [month |-> Some(m.val), day |-> Absent, year |-> Absent]
            ELSE [month |-> Some(m.val), day |-> Some(d.val),
                  year |-> IF Len(parts) > 2 /\ Strip(parts[3]) # <<>>
                           THEN Year(PyInt(parts[3])) ELSE Absent]
        Parts(parts) == Ints(parts, PyInt(parts[1]), PyInt(parts[2]))
    IN  Parts(Split(Strip(date_str), "/"))

\* lines 103-116, in the insertion order of the dict
month_map ==
    << <<Chars("january"), 1>>, <<Chars("jan"), 1>>,
       <<Chars("february"), 2>>, <<Chars("feb"), 2>>,
       <<Chars("march"), 3>>, <<Chars("mar"), 3>>,
       <<Chars("april"), 4>>, <<Chars("apr"), 4>>,
       <<Chars("may"), 5>>,
       <<Chars("june"), 6>>, <<Chars("jun"), 6>>,
       <<Chars("july"), 7>>, <<Chars("jul"), 7>>,
       <<Chars("august"), 8>>, <<Chars("aug"), 8>>,
       <<Chars("september"), 9>>, <<Chars("sep"), 9>>, <<Chars("sept"), 9>>,
       <<Chars("october"), 10>>, <<Chars("oct"), 10>>,
       <<Chars("november"), 11>>, <<Chars("nov"), 11>>,
       <<Chars("december"), 12>>, <<Chars("dec"), 12>> >>

\* lines 119-146: the first month name of month_map found in the text
RECURSIVE MonthNameDate(_, _)
MonthNameDate(date_str, k) ==
    LET Number(match) == Some(PyInt(match.text).val)
        Year(year_match) == IF year_match.ok THEN Number(year_match) ELSE Absent
        DayAnywhere(day_match) == IF day_match.ok THEN Number(day_match) ELSE Absent
        Day(day_match) ==
            IF day_match.ok THEN Number(day_match)
            ELSE DayAnywhere(SearchDay(date_str))
        Found(entry, month_pos) ==
            IF month_pos = 0 THEN MonthNameDate(date_str, k + 1)
            ELSE [month |-> Some(entry[2]),
                  day |-> Day(SearchDay(From(date_str, month_pos + Len(entry[1])))),
                  year |-> Year(SearchYear(date_str))]
        Entry(entry) == Found(entry, Find(entry[1], Lower(date_str)))
        Months(months) ==
            IF k > Len(months) THEN [month |-> Absent, day |-> Absent, year |-> Absent]
            ELSE Entry(months[k])
    IN  Months(month_map)

\* lines 82-146
ParseDate(date_str) ==
    IF Contains(<<"/">>, date_str) /\ Len(Split(date_str, "/")) >= 2
    THEN SlashDate(date_str)
    ELSE MonthNameDate(date_str, 1)

\* InferYear without the roll-over into the next calendar year
InferYearSeasonOnly(month) == football_season_year

\* lines 155-160: the year of a date written without one
InferYear(month) ==
    IF month = 4 THEN football_season_year + 1
    ELSE IF month >= 8 THEN football_season_year
    ELSE football_season_year + 1

\* line 165: time_str and time_str.lower() not in ["tba", "tbd"]
HasClockText(time_str) ==
    /\ time_str # PyNone
    /\ time_str # <<>>
    /\ Lower(time_str) \notin {Chars("tba"), Chars("tbd")}

\* Afternoon adding 12 to every hour marked PM, noon included
AfternoonEveryHour(time_str, hour) ==
    IF Contains(Chars("PM"), time_str) THEN hour + 12 ELSE hour

\* lines 188-189: adjust for PM
Afternoon(time_str, hour) ==
    IF Contains(Chars("PM"), time_str) /\ hour < 12 THEN hour + 12 ELSE hour

\* lines 191-192: adjust for 12 AM
Midnight(time_str, hour) ==
    IF Contains(Chars("AM"), time_str) /\ hour = 12 THEN 0 ELSE hour

\* lines 167-192; ok = FALSE stands for the ValueError of int()
ParseClock(time_str0) ==
    LET Meridiem(time_str, raw) ==
            [ok |-> raw.ok, hour |-> Midnight(time_str, Afternoon(time_str, raw.hour)),
             minute |-> raw.minute]
        Ints(h, mi) == [ok |-> h.ok /\ mi.ok, hour |-> h.val, minute |-> mi.val]
        ColonTime(time_parts) ==
            Ints(PyInt(time_parts[1]),
                 IF Len(time_parts) > 1 THEN PyInt(time_parts[2])
                 ELSE [ok |-> TRUE, val |-> 0])
        HourTime(hour_match) ==
            IF hour_match.ok
            THEN [ok |-> TRUE, hour |-> PyInt(hour_match.text).val, minute |-> 0]
            ELSE [ok |-> TRUE, hour |-> DefaultHour, minute |-> DefaultMinute]
        Raw(time_str) ==
            IF Contains(<<":">>, time_str)
            THEN ColonTime(Split(Strip(Replace(Replace(time_str, Chars("AM"), <<>>),
                                               Chars("PM"), <<>>)), ":"))
            ELSE HourTime(SearchHour(time_str))
        Text(time_str) == Meridiem(time_str, Raw(time_str))
        Matched(upper, time_match) ==
            Text(IF time_match.ok THEN time_match.text ELSE upper)
        Upped(upper) == Matched(upper, SearchClock(upper))
    IN  Upped(Upper(Strip(time_str0)))

\* ParseTime with noon as the default kickoff
ParseTimeNoon(time_str) ==
    IF HasClockText(time_str) THEN ParseClock(time_str)
    ELSE [ok |-> TRUE, hour |-> 12, minute |-> 0]

\* lines 164-195
ParseTime(time_str) ==
    IF HasClockText(time_str) THEN ParseClock(time_str)
    ELSE [ok |-> TRUE, hour |-> DefaultHour, minute |-> DefaultMinute]

\* lines 40-208, the try block: a datetime, or Raised for the AttributeError
\* of None.lower() (line 63), the ValueError of int() (lines 176-182), of
\* the constructor (re-raised at line 205) and of line 208
parse_date_time_try(date_str0, time_str) ==
    LET Construct(d, t) ==
            IF ~(d.month.some /\ d.day.some) THEN Raised
            ELSE IF ~t.ok THEN Raised
            ELSE datetime(IF d.year.some THEN d.year.val ELSE InferYear(d.month.val),
                          d.month.val, d.day.val, t.hour, t.minute)
    IN  IF date_str0 = PyNone THEN Raised
        ELSE Construct(ParseDate(SplitWeekday(date_str0, 1)), ParseTime(time_str))

\* the handler letting the exception through
ExceptReraise(result) == result

\* lines 210-213: except Exception ... return None
ExceptReturnNone(result) == IF result = Raised THEN None ELSE result

\* lines 38-213
parse_date_time(date_str0, time_str) ==
    ExceptReturnNone(parse_date_time_try(date_str0, time_str))

(***************************************************************************)
(* Regular expressions of scrape_schedule                                  *)
(***************************************************************************)
\* the character class [A-Za-z\s&\.\']
NameClassSet == AlphaSet \cup SpaceSet \cup {"&", ".", "'"}
InNameClass(c) == c \in NameClassSet

\* (?:vs\.?|versus) at position i: its last position, 0 when it does not
\* match.  ci: re.IGNORECASE.
VsEndAt(t, i, ci) ==
    LET In(u) ==
            IF MatchAt(Chars("vs"), u, i)
            THEN (IF i + 2 <= Len(t) /\ t[i + 2] = "." THEN i + 2 ELSE i + 1)
            ELSE IF MatchAt(Chars("versus"), u, i) THEN i + 5
            ELSE 0
    IN  In(IF ci THEN Lower(t) ELSE t)

\* (?:at|@) at position i
AtEndAt(t, i, ci) ==
    LET In(u) ==
            IF MatchAt(Chars("at"), u, i) THEN i + 1
            ELSE IF MatchAt(<<"@">>, u, i) THEN i
            ELSE 0
    IN  In(IF ci THEN Lower(t) ELSE t)

\* \s+([A-Za-z\s&\.\']+) after position e: [from, to] of group(1), <<0, 0>>
\* when it does not match.  \s+ is greedy and gives one blank back when no
\* name character follows the run of blanks.
NameGroupAfter(t, e) ==
    LET Blanks(w) ==
            IF e = 0 \/ w < e + 1 THEN <<0, 0>>
            ELSE IF w + 1 <= Len(t) /\ InNameClass(t[w + 1])
            THEN <<w + 1, RunEnd(NameClassSet, t, w + 1)>>
            ELSE IF w >= e + 2 THEN <<w, w>>
            ELSE <<0, 0>>
    IN  Blanks(RunEnd(SpaceSet, t, e + 1))

\* re.search(r'(?:vs\.?|versus)\s+([A-Za-z\s&\.\']+)', t, re.IGNORECASE): group(1)
SearchVsName(t) ==
    LET Group(g) == [ok |-> TRUE, text |-> SubSeq(t, g[1], g[2])]
        First(hits) ==
            IF hits = {} THEN NoMatch
            ELSE Group(NameGroupAfter(t, VsEndAt(t, MinPos(hits), TRUE)))
    IN  First({i \in 1..Len(t) : NameGroupAfter(t, VsEndAt(t, i, TRUE)) # <<0, 0>>})

\* re.search(r'(?:at|@)\s+([A-Za-z\s&\.\']+)', t, re.IGNORECASE): group(1)
SearchAtName(t) ==
    LET Group(g) == [ok |-> TRUE, text |-> SubSeq(t, g[1], g[2])]
        First(hits) ==
            IF hits = {} THEN NoMatch
            ELSE Group(NameGroupAfter(t, AtEndAt(t, MinPos(hits), TRUE)))
    IN  First({i \in 1..Len(t) : NameGroupAfter(t, AtEndAt(t, i, TRUE)) # <<0, 0>>})

\* re.search(r'^([A-Za-z\s&\.\']+)$', t, re.IGNORECASE): group(1)
SearchBareName(t) ==
    IF t # <<>> /\ \A i \in DOMAIN t : InNameClass(t[i])
    THEN [ok |-> TRUE, text |-> t]
    ELSE NoMatch

\* re.search(r'at|@', t, re.IGNORECASE)
HasAtToken(t) == Contains(Chars("at"), Lower(t)) \/ Contains(<<"@">>, t)

\* re.sub(r'^(?:vs\.?|versus|at|@)\s+', '', t)
StripDirection(t) ==
    LET Cut(e, w) == IF e # 0 /\ w >= e + 1 THEN From(t, w + 1) ELSE t
        Blanks(e) == Cut(e, RunEnd(SpaceSet, t, e + 1))
        Vs(v) == Blanks(IF v # 0 THEN v ELSE AtEndAt(t, 1, FALSE))
    IN  Vs(VsEndAt(t, 1, FALSE))

\* (.+?)(?:\s*\(|$) from position s: the last position of group(1)
LazyEnd(t, s) ==
    LET Paren(q) == q <= Len(t) /\ t[q] = "("
    IN  MinPos({g \in s..Len(t) : g = Len(t) \/ Paren(RunEnd(SpaceSet, t, g + 1) + 1)})

\* r'(?:at|@)\s+(.+?)(?:\s*\(|$)' matched at position i: [from, to] of group(1)
VenueGroupAt(t, i) ==
    LET Group(e, w) ==
            IF e = 0 \/ w < e + 1 THEN <<0, 0>>
            ELSE IF w + 1 <= Len(t) THEN <<w + 1, LazyEnd(t, w + 1)>>
            ELSE IF w >= e + 2 THEN <<w, w>>
            ELSE <<0, 0>>
        Blanks(e) == Group(e, RunEnd(SpaceSet, t, e + 1))
    IN  Blanks(AtEndAt(t, i, FALSE))

\* re.search(r'(?:at|@)\s+(.+?)(?:\s*\(|$)', t): group(1)
SearchVenue(t) ==
    LET Group(g) == [ok |-> TRUE, text |-> SubSeq(t, g[1], g[2])]
        First(hits) == IF hits = {} THEN NoMatch ELSE Group(VenueGroupAt(t, MinPos(hits)))
    IN  First({i \in 1..Len(t) : VenueGroupAt(t, i) # <<0, 0>>})

\* [AP]M under re.IGNORECASE at position i
MeridiemCIAt(t, i) ==
    i + 1 <= Len(t) /\ UpperChar(t[i]) \in {"A", "P"} /\ UpperChar(t[i + 1]) = "M"

\* r'\b\d{1,2}:\d{2}\s*[AP]M\b' at position i: the last position, 0 when none
ColonTimeEndAt(t, i) ==
    LET End(d, m, sp) ==
            IF /\ i <= Len(t) /\ WordBoundary(t, i)
               /\ d - i + 1 \in {1, 2}
               /\ d + 1 <= Len(t) /\ t[d + 1] = ":"
               /\ m - (d + 1) = 2
               /\ MeridiemCIAt(t, sp + 1)
               /\ WordBoundary(t, sp + 3)
            THEN sp + 2 ELSE 0
        Minutes(d, m) == End(d, m, RunEnd(SpaceSet, t, m + 1))
        Hours(d) == Minutes(d, RunEnd(DigitSet, t, d + 2))
    IN  Hours(RunEnd(DigitSet, t, i))

\* r'\b\d{1,2}\s*[AP]M\b' at position i
HourTimeEndAt(t, i) ==
    LET End(d, sp) ==
            IF /\ i <= Len(t) /\ WordBoundary(t, i)
               /\ d - i + 1 \in {1, 2}
               /\ MeridiemCIAt(t, sp + 1)
               /\ WordBoundary(t, sp + 3)
            THEN sp + 2 ELSE 0
        Hours(d) == End(d, RunEnd(SpaceSet, t, d + 1))
    IN  Hours(RunEnd(DigitSet, t, i))

\* r'\bTBA\b' (word = TBA) or r'\bTBD\b' under re.IGNORECASE at position i
WordEndAt(t, i, word) ==
    IF /\ MatchAt(word, Upper(t), i)
       /\ WordBoundary(t, i)
       /\ WordBoundary(t, i + Len(word))
    THEN i + Len(word) - 1 ELSE 0

\* lines 453-465: group(0) of the first of the four time patterns found in t
SearchTimePatterns(t) ==
    LET Match(i, e) == [ok |-> TRUE, text |-> SubSeq(t, i, e)]
        Word(i, word) == Match(i, WordEndAt(t, i, word))
        Words(word) == {i \in 1..Len(t) : WordEndAt(t, i, word) > 0}
        Fourth(hits) == IF hits # {} THEN Word(MinPos(hits), Chars("TBD")) ELSE NoMatch
        Third(hits) ==
            IF hits # {} THEN Word(MinPos(hits), Chars("TBA"))
            ELSE Fourth(Words(Chars("TBD")))
        Hour(i) == Match(i, HourTimeEndAt(t, i))
        Second(hits) == IF hits # {} THEN Hour(MinPos(hits)) ELSE Third(Words(Chars("TBA")))
        Colon(i) == Match(i, ColonTimeEndAt(t, i))
        First(hits) ==
            IF hits # {} THEN Colon(MinPos(hits))
            ELSE Second({i \in 1..Len(t) : HourTimeEndAt(t, i) > 0})
    IN  First({i \in 1..Len(t) : ColonTimeEndAt(t, i) > 0})

MonthAbbrevs ==
    {Chars("jan"), Chars("feb"), Chars("mar"), Chars("apr"), Chars("may"), Chars("jun"),
     Chars("jul"), Chars("aug"), Chars("sep"), Chars("oct"), Chars("nov"), Chars("dec")}

DayAbbrevs ==
    {Chars("mon"), Chars("tue"), Chars("wed"), Chars("thu"), Chars("fri"), Chars("sat"),
     Chars("sun")}

\* (?:Jan|...)[a-z]* under re.IGNORECASE at position i, for the abbreviations
\* in abbrevs: the last position of the run of letters, 0 when none.  The run
\* is maximal in every match, the next item accepting no letter.
WordFromAbbrevEndAt(t, i, abbrevs) ==
    IF i + 2 <= Len(t) /\ Lower(SubSeq(t, i, i + 2)) \in abbrevs
    THEN RunEnd(AlphaSet, t, i + 3)
    ELSE 0

\* the digit counts n in lens for which t holds exactly n digits at i..i+n-1
\* (a longer run may follow)
DigitCounts(t, i, lens) ==
    {n \in lens : i + n - 1 <= Len(t) /\ \A k \in i..(i + n - 1) : IsDigit(t[k])}

\* r'\b(?:Jan|...|Dec)[a-z]* \d{1,2}(?:,? \d{4})?\b' matches at position i
MonthDayAt(t, i) ==
    LET Year(cc) ==
            /\ cc + 1 <= Len(t) /\ t[cc + 1] = " "
            /\ 4 \in DigitCounts(t, cc + 2, {4})
            /\ WordBoundary(t, cc + 6)
        Day(e) ==
            \/ WordBoundary(t, e + 1)
            \/ Year(e)
            \/ e + 1 <= Len(t) /\ t[e + 1] = "," /\ Year(e + 1)
        Month(a) ==
            /\ a # 0
            /\ a + 1 <= Len(t) /\ t[a + 1] = " "
            /\ \E n \in DigitCounts(t, a + 2, {1, 2}) : Day(a + 1 + n)
    IN  WordBoundary(t, i) /\ Month(WordFromAbbrevEndAt(t, i, MonthAbbrevs))

\* r'\b\d{1,2}/\d{1,2}(?:/\d{2,4})?\b' matches at position i
SlashDateAt(t, i) ==
    /\ WordBoundary(t, i)
    /\ \E n1 \in DigitCounts(t, i, {1, 2}) :
          /\ i + n1 <= Len(t) /\ t[i + n1] = "/"
          /\ \E n2 \in DigitCounts(t, i + n1 + 1, {1, 2}) :
                LET e == i + n1 + n2
                IN  \/ WordBoundary(t, e + 1)
                    \/ /\ e + 1 <= Len(t) /\ t[e + 1] = "/"
                       /\ \E n3 \in DigitCounts(t, e + 2, {2, 3, 4}) :
                             WordBoundary(t, e + 2 + n3)

\* r'\b(?:Mon|...|Sun)[a-z]*\.?\s+(?:Jan|...|Dec)[a-z]*\.?\s+\d{1,2}\b'
\* matches at position i
WeekdayMonthDayAt(t, i) ==
    LET Dot(a) == IF a + 1 <= Len(t) /\ t[a + 1] = "." THEN a + 1 ELSE a
        Day(b1, w2) ==
            /\ w2 >= b1 + 1
            /\ \E n \in DigitCounts(t, w2 + 1, {1, 2}) : WordBoundary(t, w2 + 1 + n)
        MonthDot(b1) == Day(b1, RunEnd(SpaceSet, t, b1 + 1))
        Month(b) == b # 0 /\ MonthDot(Dot(b))
        Blanks(a1, w1) ==
            w1 >= a1 + 1 /\ Month(WordFromAbbrevEndAt(t, w1 + 1, MonthAbbrevs))
        WeekdayDot(a1) == Blanks(a1, RunEnd(SpaceSet, t, a1 + 1))
        Weekday(a) == a # 0 /\ WeekdayDot(Dot(a))
    IN  WordBoundary(t, i) /\ Weekday(WordFromAbbrevEndAt(t, i, DayAbbrevs))

\* lines 333-343: one of the three date patterns is found in t
LooksLikeDate(t) ==
    \E i \in 1..Len(t) : MonthDayAt(t, i) \/ SlashDateAt(t, i) \/ WeekdayMonthDayAt(t, i)


(***************************************************************************)
(* scrape_schedule, src/Script.py 215-565.                                 *)
(*                                                                         *)
(* A schedule row is a tr element, modelled as the sequence of its td      *)
(* cells; a cell has its class attribute, its text and the text of the     *)
(* team link (a[href*="team"]) inside it, PyNone when it holds none.  The  *)
(* span / div / th / li selectors of the source match nothing in such a    *)
(* row.                                                                    *)
(***************************************************************************)
Cell(cls, text, link) == [cls |-> Chars(cls), text |-> Chars(text), link |-> link]

\* td[class*="word"]
ClassHas(cell, word) == Contains(Chars(word), cell.cls)

\* select_one: the first of the cells of the row at the positions hits (those
\* the selector matches), 0 when there is none
FirstCell(row, hits) ==
    IF hits \cap DOMAIN row # {} THEN MinPos(hits \cap DOMAIN row) ELSE 0

\* lines 308-346
ExtractDate(item) ==
    LET Text(k) == Strip(item[k].text)
        ByPattern(gc) == IF gc # 0 THEN Text(gc) ELSE <<>>
        ByClass(dc) ==
            IF dc # 0 /\ Text(dc) # <<>> THEN Text(dc)
            ELSE IF Len(item) >= 1 /\ Text(1) # <<>> THEN Text(1)
            ELSE ByPattern(FirstCell(item, {k \in DOMAIN item : LooksLikeDate(Text(k))}))
    IN  ByClass(FirstCell(item, {k \in DOMAIN item : ClassHas(item[k], "date")}))

UnknownOpponent == Chars("Unknown Opponent")
yale == Chars("yale")
HasYale(t) == Contains(yale, Lower(t))

\* lines 383-394: the first of the three opponent patterns that matches the
\* cell text with a group free of "yale" sets the opponent
OpponentFromText(cell_text, opponent, is_home) ==
    LET Set(hit) ==
            [opponent |-> Strip(hit.text),
             is_home |-> IF HasAtToken(cell_text) THEN FALSE ELSE is_home]
        Usable(m) == m.ok /\ ~HasYale(Strip(m.text))
        Bare(m3) ==
            IF Usable(m3) THEN Set(m3) ELSE [opponent |-> opponent, is_home |-> is_home]
        At(m2) == IF Usable(m2) THEN Set(m2) ELSE Bare(SearchBareName(cell_text))
        Vs(m1) == IF Usable(m1) THEN Set(m1) ELSE At(SearchAtName(cell_text))
    IN  Vs(SearchVsName(cell_text))

\* lines 369-397: the cells are scanned until one yields an opponent
RECURSIVE ScanForOpponent(_, _, _, _)
ScanForOpponent(item, i, opponent, is_home) ==
    LET Scanned(r) ==
            IF r.opponent # UnknownOpponent /\ ~HasYale(r.opponent) THEN r
            ELSE ScanForOpponent(item, i + 1, r.opponent, r.is_home)
        Text(cell_text) ==
            IF Lower(cell_text) = yale \/ cell_text = <<>>
            THEN ScanForOpponent(item, i + 1, opponent, is_home)
            ELSE Scanned(OpponentFromText(cell_text, opponent, is_home))
    IN  IF i > Len(item) THEN [opponent |-> opponent, is_home |-> is_home]
        ELSE Text(Strip(item[i].text))

\* lines 353-397
ExtractOpponent(item) ==
    LET Chosen(opponent) ==
            IF opponent = UnknownOpponent \/ HasYale(opponent)
            THEN ScanForOpponent(item, 1, opponent, TRUE)
            ELSE [opponent |-> opponent, is_home |-> TRUE]
        Text(oc, opponent_text) ==
            Chosen(IF oc # 0 /\ ~HasYale(opponent_text) THEN opponent_text
                   ELSE UnknownOpponent)
        Elem(oc) ==
            Text(oc, IF ClassHas(item[oc], "opponent") \/ ClassHas(item[oc], "team")
                     THEN Strip(item[oc].text)
                     ELSE Strip(item[oc].link))
    IN  Elem(FirstCell(item, {k \in DOMAIN item :
                                 \/ ClassHas(item[k], "opponent")
                                 \/ ClassHas(item[k], "team")
                                 \/ item[k].link # PyNone}))

\* lines 403 and 407: the cell says home or away
IsVsCell(c) == Contains(Chars("vs"), Lower(c.text)) /\ ~HasYale(c.text)
IsAtCell(c) == Contains(Chars("at "), Lower(c.text)) \/ Contains(Chars("@ "), Lower(c.text))

\* lines 399-414: the first cell that says home or away decides is_home
HomeAway(item, is_home) ==
    LET Elem(hc) ==
            IF hc = 0 THEN [is_home |-> is_home, elem |-> 0]
            ELSE IF IsVsCell(item[hc]) THEN [is_home |-> TRUE, elem |-> hc]
            ELSE [is_home |-> HasYale(item[hc].text), elem |-> hc]
    IN  Elem(FirstCell(item, {k \in DOMAIN item : IsVsCell(item[k]) \/ IsAtCell(item[k])}))

HomeVenue == Chars("Yale Bowl, New Haven, CT")

\* lines 416-429: the location read from the home/away cell or, failing
\* that, from a cell of class location; "" when the row gives none
ExplicitLocation(item, elem) ==
    LET ByClass(lc) == IF lc # 0 THEN Strip(item[lc].text) ELSE <<>>
        FromElem(location) ==
            IF location # <<>> THEN location
            ELSE ByClass(FirstCell(item, {k \in DOMAIN item : ClassHas(item[k], "location")}))
        Matched(location_match) ==
            FromElem(IF location_match.ok THEN Strip(location_match.text) ELSE <<>>)
    IN  Matched(IF elem # 0 THEN SearchVenue(item[elem].text) ELSE NoMatch)

\* lines 431-438: the location of a row that gives none
DefaultLocation(location, is_home, opponent) ==
    IF location # <<>> THEN location
    ELSE IF is_home THEN HomeVenue
    ELSE IF opponent # UnknownOpponent THEN opponent \o Chars(" venue")
    ELSE <<>>

\* lines 416-438
ExtractLocation(item, elem, is_home, opponent) ==
    DefaultLocation(ExplicitLocation(item, elem), is_home, opponent)

\* lines 440-473
ExtractTime(item) ==
    LET Final(time_str) == IF time_str = <<>> THEN Chars("TBA") ELSE time_str
        ByPattern(cell) ==
            Final(IF cell # 0 THEN SearchTimePatterns(Strip(item[cell].text)).text
                  ELSE <<>>)
        ByClass(tc) ==
            IF tc # 0 THEN Final(Strip(item[tc].text))
            ELSE ByPattern(FirstCell(item, {k \in DOMAIN item :
                                               SearchTimePatterns(Strip(item[k].text)).ok}))
    IN  ByClass(FirstCell(item, {k \in DOMAIN item : ClassHas(item[k], "time")}))

\* lines 475-486
ExtractBroadcast(item) ==
    LET Final(broadcast) == IF broadcast = <<>> THEN Chars("TBA") ELSE broadcast
        ByClass(bc) == Final(IF bc # 0 THEN Strip(item[bc].text) ELSE <<>>)
    IN  ByClass(FirstCell(item, {k \in DOMAIN item : ClassHas(item[k], "network")}))

\* start + timedelta(hours=3, minutes=30), lines 510-522
DurationHours == 3
DurationMinutes == 30

AddDuration(start) ==
    LET Rolled(total, over, lastDay) ==
            [tag |-> "datetime",
             year |-> IF over /\ lastDay /\ start.month = 12 THEN start.year + 1
                      ELSE start.year,
             month |-> IF over /\ lastDay
                       THEN (IF start.month = 12 THEN 1 ELSE start.month + 1)
                       ELSE start.month,
             day |-> IF ~over THEN start.day ELSE IF lastDay THEN 1 ELSE start.day + 1,
             hour |-> (total % (24 * 60)) \div 60, minute |-> total % 60]
        Total(total) ==
            Rolled(total, total >= 24 * 60,
                   start.day = DaysInMonth(start.year, start.month))
    IN  Total(start.hour * 60 + start.minute + DurationHours * 60 + DurationMinutes)

\* lines 497-500
Title(opponent, is_home) ==
    IF is_home THEN opponent \o Chars(" at Yale") ELSE Chars("Yale at ") \o opponent

\* BadOpponent without the test for the sentinel
BadOpponentNoSentinel(opponent) == opponent = <<>> \/ HasYale(opponent)

\* line 514: the opponent is missing or invalid
BadOpponent(opponent) ==
    opponent = <<>> \/ opponent = UnknownOpponent \/ HasYale(opponent)

Skipped == [ok |-> FALSE]

\* lines 416-540: the location is found, the opponent cleaned, the row
\* filtered and the game built: the game appended, or Skipped
BuildGame(item, date_str, time_str, o, h) ==
    LET Game(opponent, location, game_datetime) ==
            IF date_str = <<>> THEN Skipped
            ELSE IF HasYale(opponent) THEN Skipped
            ELSE IF game_datetime = None THEN Skipped
            ELSE IF BadOpponent(opponent) THEN Skipped
            ELSE [ok |-> TRUE,
                  game |-> [title |-> Title(opponent, h.is_home),
                            start |-> game_datetime,
                            end |-> AddDuration(game_datetime),
                            location |-> location,
                            broadcast |-> ExtractBroadcast(item),
                            is_home |-> h.is_home,
                            opponent |-> opponent,
                            date_str |-> date_str,
                            time_str |-> time_str]]
    IN  Game(Strip(StripDirection(o.opponent)),
             ExtractLocation(item, h.elem, h.is_home, o.opponent),
             parse_date_time(date_str, time_str))

\* lines 399-540: home or away is decided, then the game is built
PlaceGame(item, date_str, time_str, o) ==
    BuildGame(item, date_str, time_str, o, HomeAway(item, o.is_home))

\* lines 296-544, one schedule item: the game appended, or Skipped
ProcessItem(item) ==
    PlaceGame(item, ExtractDate(item), ExtractTime(item), ExtractOpponent(item))

\* ProcessItems leaving the loop at the first item it skips (break for continue)
RECURSIVE ProcessItemsStopAtSkip(_)
ProcessItemsStopAtSkip(items) ==
    LET Rest(r) ==
            IF r.ok THEN <<r.game>> \o ProcessItemsStopAtSkip(Tail(items)) ELSE <<>>
    IN  IF items = <<>> THEN <<>> ELSE Rest(ProcessItem(Head(items)))

\* lines 295-544: the games of the items, in order
RECURSIVE ProcessItems(_)
ProcessItems(items) ==
    LET Rest(r) == (IF r.ok THEN <<r.game>> ELSE <<>>) \o ProcessItems(Tail(items))
    IN  IF items = <<>> THEN <<>> ELSE Rest(ProcessItem(Head(items)))

\* two decimal digits / four decimal digits, zero padded
Pad2(n) == <<Digits[((n \div 10) % 10) + 1], Digits[(n % 10) + 1]>>
Pad4(n) == Pad2(n \div 100) \o Pad2(n % 100)

\* str(start.date()): YYYY-MM-DD
DateStr(dt) == Pad4(dt.year) \o <<"-">> \o Pad2(dt.month) \o <<"-">> \o Pad2(dt.day)

\* game_id made of the date alone
game_id_date_only(game) == DateStr(game.start)

\* line 555
game_id(game) == DateStr(game.start) \o <<"_">> \o game.opponent

\* lines 549-565: the first game of every game_id, in order
RECURSIVE Deduplicate(_, _)
Deduplicate(games, seen_games) ==
    LET Keep(id) ==
            IF id \in seen_games THEN Deduplicate(Tail(games), seen_games)
            ELSE <<Head(games)>> \o Deduplicate(Tail(games), seen_games \cup {id})
    IN  IF games = <<>> THEN <<>> ELSE Keep(game_id(Head(games)))

(***************************************************************************)
(* The response to requests.get: a failure (an exception of requests.get   *)
(* or raise_for_status), or a page.  A page has one candidate container,   *)
(* named by the selector that finds it ("other": none of the selectors     *)
(* does), the class of its rows, and its rows.                             *)
(***************************************************************************)
FetchError == [kind |-> "error"]
Page(container, rowClass, rows) ==
    [kind |-> "page", container |-> container, rowClass |-> rowClass, rows |-> rows]

AltTableSelectors == {"table.schedule-table", "table.schedule", ".Schedule__Table"}

\* lines 245-283: the schedule items found on the page
FindScheduleItems(page) ==
    LET inTable == IF page.container = "table.Table" THEN page.rows ELSE <<>>
        inAlt == IF inTable # <<>> THEN inTable
                 ELSE IF page.container \in AltTableSelectors THEN page.rows
                 ELSE <<>>
    IN  IF inAlt # <<>> THEN inAlt
        ELSE IF page.rowClass = "Table__TR" THEN page.rows
        ELSE <<>>

\* lines 215-565
scrape_schedule(response) ==
    LET games == IF response.kind = "error" THEN <<>>
                 ELSE ProcessItems(FindScheduleItems(response))
    IN  Deduplicate(games, {})


(***************************************************************************)
(* Values shared by the specifications                                     *)
(***************************************************************************)
\* CALENDAR_FILE does not exist
NoFile == [tag |-> "NoFile"]
\* no operation has run yet
\* the record of the last operation handled: none yet
NoOp ==
    [op |-> "none", trigger |-> "none", season |-> 0, refreshed |-> FALSE,
     games |-> <<>>, backup |-> <<>>, status |-> 0, body |-> NoFile]
NotCalled == [tag |-> "NotCalled"]
Returned(v) == [tag |-> "returned", value |-> v]

Clock(y, m) == [year |-> y, month |-> m]

\* the dates at which the program is observed: January (season = last year),
\* February (the month get_current_season and parse_date_time disagree on),
\* mid-season, and a later year
Nows == {Clock(2024, 1), Clock(2024, 2), Clock(2024, 9), Clock(2026, 11)}

(***************************************************************************)
(* SpecParse: parse_date_time applied to one (date text, time text)        *)
(***************************************************************************)
MonthNameDay15 ==
    {Chars("Jan 15"), Chars("Feb 15"), Chars("Mar 15"), Chars("Apr 15"),
     Chars("May 15"), Chars("Jun 15"), Chars("Jul 15"), Chars("Aug 15"),
     Chars("Sep 15"), Chars("Oct 15"), Chars("Nov 15"), Chars("Dec 15")}

DateTexts ==
    MonthNameDay15 \cup
    {Chars("Sat, Sep 20"), Chars("SaturdayNov 22"), Chars("September 6"),
     Chars("9/21"), Chars("4/15"), Chars("1/3"),
     Chars("09/21/24"), Chars("9/21/2024"), Chars("Sep 21, 2024"),
     Chars("Apr 15, 2025"), Chars("Sep 21, 1999"),
     Chars("TBD"), Chars("2024-09-21"), Chars("9/31"), Chars("Feb 30"),
     Chars("13/1"), Chars("Sep 2025"), PyNone}

TimeTexts ==
    {PyNone, <<>>, Chars("TBA"), Chars("TBD"), Chars("tba"), Chars("Tbd"),
     Chars("1:00 PM"), Chars("12:00 AM"), Chars("12:30 PM"), Chars("12 PM"),
     Chars("7 pm"), Chars("11:15 AM"), Chars("1:00"), Chars("3:30"),
     Chars("25:00"), Chars("12:60 PM"), Chars("7:59")}

\* a number written without a leading zero
Dec(n) == IF n < 10 THEN <<Digits[n + 1]>> ELSE Pad2(n)

\* the ways a kickoff time with a marker is written: "1:05 PM", "1:05PM",
\* "1:05 pm"
ClockText(h, m, marker, style) ==
    LET hm == Dec(h) \o <<":">> \o Pad2(m)
    IN  CASE style = "spaced" -> hm \o <<" ">> \o Chars(marker)
          [] style = "joined" -> hm \o Chars(marker)
          [] style = "lower"  -> hm \o <<" ">> \o Lower(Chars(marker))

\* every hour 1..12 and minute 0..59 with either marker, and the two other
\* styles on the hour and on the half-hour
MarkedClocks ==
    {[text |-> ClockText(h, m, marker, "spaced"), hour |-> h, minute |-> m,
      marker |-> marker] : h \in 1..12, m \in 0..59, marker \in {"AM", "PM"}}
    \cup
    {[text |-> ClockText(x[1], x[2], x[3], x[4]), hour |-> x[1], minute |-> x[2],
      marker |-> x[3]] :
        x \in (1..12) \X {0, 30} \X {"AM", "PM"} \X {"joined", "lower"}}

MarkedTimeTexts == {c.text : c \in MarkedClocks}

\* the date the marked time texts are parsed with
MarkedDate == Chars("Sep 15")

ParseInputs ==
    [fn : {"parse_date_time"}, date_str : DateTexts, time_str : TimeTexts]
    \cup
    [fn : {"parse_date_time"}, date_str : {MarkedDate}, time_str : MarkedTimeTexts]

InitParse ==
    /\ now \in Nows
    /\ pc = "unit"
    /\ calfile = NoFile
    /\ before = NoFile
    /\ lastGood = NoFile
    /\ last = NoOp
    /\ args \in ParseInputs
    /\ (args.time_str \in MarkedTimeTexts \ TimeTexts) => now = Clock(2024, 9)
    /\ ret = NotCalled

CallParse ==
    /\ pc = "unit"
    /\ args.fn = "parse_date_time"
    /\ ret = NotCalled
    /\ ret' = Returned(parse_date_time(args.date_str, args.time_str))
    /\ UNCHANGED <<now, pc, calfile, before, lastGood, last, args>>

NextParse == CallParse

SpecParse == InitParse /\ [][NextParse]_vars

Parsed == pc = "unit" /\ args.fn = "parse_date_time" /\ ret.tag = "returned"

\* the time texts that name no time: TBA / TBD in any letter case, "", None
UnspecifiedTimes ==
    {PyNone, <<>>, Chars("TBA"), Chars("TBD"), Chars("tba"), Chars("Tbd")}

(***************************************************************************)
(* C8  A date text with a month and a day and no year gets the year of the *)
(* season when its month is August..December and the year after it when    *)
(* its month is January..July; every month 1..12 is resolved that way.     *)
(***************************************************************************)
C8Cases ==
    {[text |-> Chars("Jan 15"), month |-> 1], [text |-> Chars("Feb 15"), month |-> 2],
     [text |-> Chars("Mar 15"), month |-> 3], [text |-> Chars("Apr 15"), month |-> 4],
     [text |-> Chars("May 15"), month |-> 5], [text |-> Chars("Jun 15"), month |-> 6],
     [text |-> Chars("Jul 15"), month |-> 7], [text |-> Chars("Aug 15"), month |-> 8],
     [text |-> Chars("Sep 15"), month |-> 9], [text |-> Chars("Oct 15"), month |-> 10],
     [text |-> Chars("Nov 15"), month |-> 11], [text |-> Chars("Dec 15"), month |-> 12],
     [text |-> Chars("Sat, Sep 20"), month |-> 9], [text |-> Chars("SaturdayNov 22"), month |-> 11],
     [text |-> Chars("September 6"), month |-> 9],
     [text |-> Chars("9/21"), month |-> 9], [text |-> Chars("4/15"), month |-> 4],
     [text |-> Chars("1/3"), month |-> 1]}

C8_YearInference ==
    \A c \in C8Cases :
        (Parsed /\ args.date_str = c.text) =>
            /\ args.time_str \in UnspecifiedTimes => ret.value # None
            /\ ret.value # None =>
                /\ ret.value.month = c.month
                /\ ret.value.year =
                     IF c.month >= 8 THEN football_season_year
                     ELSE football_season_year + 1

\* "Apr 15" parsed in the 2024 season resolves to April 2025
C8_Witness ==
    /\ Parsed
    /\ args.date_str = Chars("Apr 15")
    /\ now = Clock(2024, 9)
    /\ ret.value # None
    /\ ret.value.year = 2025 /\ ret.value.month = 4

(***************************************************************************)
(* C9  As claimed: for every date text of a recognised pattern (slash-     *)
(* numeric or month-name, with or without a year) the year of the          *)
(* timestamp returned is the season's year or the year after it.           *)
(***************************************************************************)
C9Written ==
    {[text |-> Chars("09/21/24"), year |-> 2024],
     [text |-> Chars("9/21/2024"), year |-> 2024],
     [text |-> Chars("Sep 21, 2024"), year |-> 2024],
     [text |-> Chars("Apr 15, 2025"), year |-> 2025]}

\* no year is written, or the written year is one the month-name pattern
\* does not read (it reads 20xx only)
C9Inferred == {c.text : c \in C8Cases} \cup {Chars("Sep 21, 1999")}

RecognizedDateTexts == C9Inferred \cup {c.text : c \in C9Written}

ResolvableDateTexts == {c.text : c \in C8Cases} \cup {c.text : c \in C9Written}

C10_DefaultKickoff ==
    (Parsed /\ args.time_str \in UnspecifiedTimes) =>
        /\ args.date_str \in ResolvableDateTexts => ret.value # None
        /\ ret.value # None => (ret.value.hour = 13 /\ ret.value.minute = 0)

\* None as the time text, a resolvable date: 13:00
C10_Witness ==
    /\ Parsed
    /\ args.time_str = PyNone
    /\ args.date_str = Chars("Sep 15")
    /\ ret.value # None
    /\ ret.value.hour = 13 /\ ret.value.minute = 0

(***************************************************************************)
(* C11  A time text with an hour 1..12, a minute 0..59 and an AM/PM marker *)
(* resolves to: PM and hour < 12, hour + 12; PM and hour = 12, 12; AM and  *)
(* hour = 12, 0; AM and hour < 12, the hour; the minute is the one written.*)
(***************************************************************************)
Hour24(hour, marker) ==
    IF marker = "PM" THEN (IF hour < 12 THEN hour + 12 ELSE 12)
    ELSE (IF hour = 12 THEN 0 ELSE hour)

C11_TwelveHourClock ==
    \A c \in MarkedClocks :
        (Parsed /\ args.time_str = c.text /\ args.date_str \in ResolvableDateTexts) =>
            /\ ret.value # None
            /\ ret.value.hour = Hour24(c.hour, c.marker)
            /\ ret.value.minute = c.minute

\* "12:05 AM" is five past midnight
C11_Witness ==
    /\ Parsed
    /\ args.time_str = Chars("12:05 AM")
    /\ args.date_str = MarkedDate
    /\ ret.value # None
    /\ ret.value.hour = 0 /\ ret.value.minute = 5

(***************************************************************************)
(* C12  A time text with no AM and no PM marker and an hour below 8        *)
(* ("1:00", "3:30") is taken as PM: the resolved hour is the written hour  *)
(* + 12.                                                                   *)
(***************************************************************************)
UnmarkedClocks ==
    {[text |-> Chars("1:00"), hour |-> 1, minute |-> 0],
     [text |-> Chars("3:30"), hour |-> 3, minute |-> 30],
     [text |-> Chars("7:59"), hour |-> 7, minute |-> 59]}

C12_UnmarkedSmallHourIsPM ==
    \A c \in UnmarkedClocks :
        (Parsed /\ args.time_str = c.text /\ args.date_str \in ResolvableDateTexts) =>
            /\ ret.value # None
            /\ ret.value.hour = c.hour + 12
            /\ ret.value.minute = c.minute

(***************************************************************************)
(* C13  parse_date_time lets no exception out: for every date text and     *)
(* time text it returns None or a timestamp whose year, month, day, hour   *)
(* and minute form a real calendar timestamp, and it returns None for an   *)
(* impossible date (day 31 of a 30-day month, Feb 30, month 13), for an    *)
(* hour above 23 and for a minute above 59.                                *)
(***************************************************************************)
ImpossibleDateTexts == {Chars("9/31"), Chars("Feb 30"), Chars("13/1")}
OutOfRangeTimeTexts == {Chars("25:00"), Chars("12:60 PM")}

ValidTimestamp(v) ==
    /\ v.tag = "datetime"
    /\ v.year \in 1..9999
    /\ v.month \in 1..12
    /\ v.day \in 1..31
    /\ v.month \in {4, 6, 9, 11} => v.day <= 30
    /\ v.month = 2 => v.day <= (IF IsLeap(v.year) THEN 29 ELSE 28)
    /\ v.hour \in 0..23
    /\ v.minute \in 0..59

C13_NoExceptionEscapes ==
    Parsed =>
        /\ ret.value # Raised
        /\ ret.value # None => ValidTimestamp(ret.value)
        /\ args.date_str \in ImpossibleDateTexts => ret.value = None
        /\ args.time_str \in OutOfRangeTimeTexts => ret.value = None

\* the ValueError of datetime(2024, 9, 31, 13, 0) comes back as None
C13_Witness ==
    /\ Parsed
    /\ args.date_str = Chars("9/31")
    /\ args.time_str = Chars("1:00 PM")
    /\ parse_date_time_try(args.date_str, args.time_str) = Raised
    /\ ret.value = None

(***************************************************************************)
(* SpecScrape: scrape_schedule applied to one response                     *)
(***************************************************************************)
NoLink == PyNone
Link(text) == Chars(text)

\* Harvard at home on Sep 20, 12:00 PM
RowHarvard ==
    <<Cell("date", "Sat, Sep 20", NoLink), Cell("", "vs Harvard", Link("Harvard")),
      Cell("", "12:00 PM", NoLink)>>
\* the same game listed again, written differently, no time yet
RowHarvardAgain ==
    <<Cell("date", "Sep 20", NoLink), Cell("", "vs Harvard", Link("Harvard")),
      Cell("", "TBA", NoLink)>>
\* another opponent on the same day
RowCornell ==
    <<Cell("date", "Sat, Sep 20", NoLink), Cell("", "vs Cornell", Link("Cornell")),
      Cell("", "3:30 PM", NoLink)>>
\* an away game
RowBrown ==
    <<Cell("date", "9/27", NoLink), Cell("", "at Brown", Link("Brown")),
      Cell("", "1:00 PM", NoLink)>>
\* no team link and no opponent class: the opponent is found by the patterns
RowPrinceton ==
    <<Cell("", "Oct 18", NoLink), Cell("", "vs. Princeton", NoLink)>>
\* a date that names no month and day
RowNoDate ==
    <<Cell("date", "TBD", NoLink), Cell("", "vs Penn", Link("Penn")),
      Cell("", "1:00 PM", NoLink)>>
\* the only team named is Yale: the opponent stays "Unknown Opponent"
RowYaleOnly ==
    <<Cell("date", "Oct 4", NoLink), Cell("", "Yale", Link("Yale"))>>
\* an empty team link: the opponent is ""
RowEmptyOpponent ==
    <<Cell("date", "Oct 11", NoLink), Cell("", "", Link(""))>>

\* an away game announced in capitals: "AT" is an away marker for line 407
\* and not for the location pattern of line 419
RowBrownCapitals ==
    <<Cell("date", "9/27", NoLink), Cell("", "AT Brown", Link("Brown")),
      Cell("", "1:00 PM", NoLink)>>
\* a bare team name, no link: line 391 finds "at" inside the name
RowColgate ==
    <<Cell("date", "Oct 25", NoLink), Cell("", "Colgate", NoLink),
      Cell("", "12:00 PM", NoLink)>>
\* an away game found by the patterns
RowAtPrinceton ==
    <<Cell("", "Oct 18", NoLink), Cell("", "at Princeton", NoLink)>>
\* a home game whose date is written without the comma, with and without a
\* team link
RowSatPrinceton ==
    <<Cell("date", "Sat Oct 18", NoLink), Cell("", "vs. Princeton", NoLink),
      Cell("", "12:00 PM", NoLink)>>
RowSatPrincetonLinked ==
    <<Cell("date", "Sat Oct 18", NoLink), Cell("", "vs. Princeton", Link("Princeton")),
      Cell("", "12:00 PM", NoLink)>>

\* rows scraped on a page of their own
SingleRows ==
    {RowBrownCapitals, RowColgate, RowAtPrinceton, RowSatPrinceton,
     RowSatPrincetonLinked}

RowPool ==
    {RowHarvard, RowHarvardAgain, RowCornell, RowBrown, RowPrinceton, RowNoDate,
     RowYaleOnly, RowEmptyOpponent}

\* the most rows on a page
MaxRows == 3

\* the sequences of at most n rows of the pool
RowSeqs(pool, n) == UNION {[1..k -> pool] : k \in 0..n}

ScrapeResponses ==
    {FetchError}
    \cup {Page("table.Table", "", rows) : rows \in RowSeqs(RowPool, MaxRows)}
    \cup {Page(c, "", <<RowHarvard>>) : c \in AltTableSelectors \cup {"other"}}
    \cup {Page("other", "Table__TR", <<RowHarvard>>), Page("table.Table", "", <<>>)}
    \cup {Page("table.Table", "", <<row>>) : row \in SingleRows}

\* the scrape is observed in mid-season
ScrapeNows == {Clock(2024, 9)}

InitScrape ==
    /\ now \in ScrapeNows
    /\ pc = "unit"
    /\ calfile = NoFile
    /\ before = NoFile
    /\ lastGood = NoFile
    /\ last = NoOp
    /\ args \in [fn : {"scrape_schedule"}, response : ScrapeResponses]
    /\ ret = NotCalled

CallScrape ==
    /\ pc = "unit"
    /\ args.fn = "scrape_schedule"
    /\ ret = NotCalled
    /\ ret' = Returned(scrape_schedule(args.response))
    /\ UNCHANGED <<now, pc, calfile, before, lastGood, last, args>>

NextScrape == CallScrape

SpecScrape == InitScrape /\ [][NextScrape]_vars

Scraped == pc = "unit" /\ args.fn = "scrape_schedule" /\ ret.tag = "returned"

\* the rows the scrape went through
ItemsOf(response) ==
    IF response.kind = "error" THEN <<>> ELSE FindScheduleItems(response)

SameDay(a, b) == a.year = b.year /\ a.month = b.month /\ a.day = b.day

SamePair(g, h) == SameDay(g.start, h.start) /\ g.opponent = h.opponent

\* the elements of seq at the positions in keep, in order
RECURSIVE AtPositions(_, _, _)
AtPositions(seq, keep, i) ==
    IF i > Len(seq) THEN <<>>
    ELSE (IF i \in keep THEN <<seq[i]>> ELSE <<>>) \o AtPositions(seq, keep, i + 1)

(***************************************************************************)
(* C5  The list scrape_schedule returns holds no two records with the same *)
(* (day of start, opponent); of the candidate records sharing a pair the   *)
(* first in row order is the one kept, and the records kept stand in the   *)
(* order of the candidates.                                                *)
(***************************************************************************)
C5_Deduplicated ==
    Scraped =>
        LET games == ret.value
            candidates == ProcessItems(ItemsOf(args.response))
            firsts == {i \in DOMAIN candidates :
                          \A j \in 1..(i - 1) : ~SamePair(candidates[j], candidates[i])}
        IN  /\ \A i, j \in DOMAIN games : i # j => ~SamePair(games[i], games[j])
            /\ games = AtPositions(candidates, firsts, 1)

\* Harvard, Cornell on the same day, Harvard again: the third row is dropped
C5_Witness ==
    /\ Scraped
    /\ args.response = Page("table.Table", "", <<RowHarvard, RowCornell, RowHarvardAgain>>)
    /\ Len(ret.value) = 2
    /\ ret.value[1].opponent = Chars("Harvard")
    /\ ret.value[1].time_str = Chars("12:00 PM")
    /\ ret.value[2].opponent = Chars("Cornell")

(***************************************************************************)
(* C6  Every record scrape_schedule returns has an opponent that is not    *)
(* empty, is not "Unknown Opponent" and does not contain the home team's   *)
(* name; a row whose opponent is one of these yields no record.            *)
(***************************************************************************)
\* the date texts of the rows of the pool whose opponent is invalid
C6BadOpponentDates == {Chars("Oct 4"), Chars("Oct 11")}

C6_OpponentValid ==
    Scraped =>
        \A i \in DOMAIN ret.value :
            LET g == ret.value[i]
            IN  /\ g.opponent # <<>>
                /\ g.opponent # Chars("Unknown Opponent")
                /\ ~Contains(Chars("yale"), Lower(g.opponent))
                /\ g.date_str \notin C6BadOpponentDates

\* a row naming only Yale before a good row: one record, the good row's
C6_Witness ==
    /\ Scraped
    /\ args.response = Page("table.Table", "", <<RowYaleOnly, RowEmptyOpponent, RowBrown>>)
    /\ Len(ret.value) = 1
    /\ ret.value[1].opponent = Chars("Brown")

(***************************************************************************)
(* C7  A row whose date text parse_date_time cannot resolve yields no      *)
(* record, the rows after it are still processed, and the start of every   *)
(* record is what parse_date_time returns for the record's own date text.  *)
(***************************************************************************)
\* what the rows of the pool that make a game are expected to yield
C7GoodRows ==
    {[row |-> RowHarvard, opponent |-> Chars("Harvard"), month |-> 9, day |-> 20],
     [row |-> RowCornell, opponent |-> Chars("Cornell"), month |-> 9, day |-> 20],
     [row |-> RowBrown, opponent |-> Chars("Brown"), month |-> 9, day |-> 27],
     [row |-> RowPrinceton, opponent |-> Chars("Princeton"), month |-> 10, day |-> 18]}

C7_UnparsableDateSkipped ==
    Scraped =>
        LET games == ret.value
            items == ItemsOf(args.response)
        IN  /\ \A i \in DOMAIN games :
                  /\ games[i].date_str # Chars("TBD")
                  /\ games[i].start # None
                  /\ games[i].start = parse_date_time(games[i].date_str, games[i].time_str)
            /\ \A i, j \in DOMAIN items : \A c \in C7GoodRows :
                  (i < j /\ items[i] = RowNoDate /\ items[j] = c.row) =>
                      \E k \in DOMAIN games :
                          /\ games[k].opponent = c.opponent
                          /\ games[k].start.month = c.month
                          /\ games[k].start.day = c.day

\* the row without a date comes first, the game after it is still recorded
C7_Witness ==
    /\ Scraped
    /\ args.response = Page("table.Table", "", <<RowNoDate, RowBrown>>)
    /\ Len(ret.value) = 1
    /\ ret.value[1].opponent = Chars("Brown")
    /\ ret.value[1].start.month = 9 /\ ret.value[1].start.day = 27

(***************************************************************************)
(* C14  Every accepted record of a row from which no explicit location was *)
(* extracted has the home venue as its location when is_home is true and   *)
(* the empty string when is_home is false.                                 *)
(***************************************************************************)
\* the scrape of a page of one row returned the game of that row
OneRowGame ==
    /\ Scraped
    /\ Len(ItemsOf(args.response)) = 1
    /\ Len(ret.value) = 1

\* the row gives no location: neither the home/away cell nor a location cell
NoExplicitLocation(item) ==
    ExplicitLocation(item, HomeAway(item, ExtractOpponent(item).is_home).elem) = <<>>

C14_DefaultLocation ==
    (OneRowGame /\ NoExplicitLocation(ItemsOf(args.response)[1])) =>
        ret.value[1].location = IF ret.value[1].is_home THEN HomeVenue ELSE <<>>

(***************************************************************************)
(* C15  A row pattern is accepted only when it matches more than 3         *)
(* elements: a page on which every container and row pattern matches 3     *)
(* elements or fewer has no schedule structure and yields no game.         *)
(***************************************************************************)
C15_MinimumRowCount ==
    (Scraped /\ Len(ItemsOf(args.response)) <= 3) => ret.value = <<>>

(***************************************************************************)
(* C16  A row whose opponent text is "at X" yields a record with opponent  *)
(* X and is_home false, a row whose opponent text is "vs. X" a record with *)
(* opponent X and is_home true, whatever the date, time and broadcast      *)
(* cells of the row hold; the prefix is not part of the opponent.          *)
(***************************************************************************)
DirectionRows ==
    {[row |-> RowPrinceton, opponent |-> Chars("Princeton"), is_home |-> TRUE],
     [row |-> RowAtPrinceton, opponent |-> Chars("Princeton"), is_home |-> FALSE],
     [row |-> RowSatPrinceton, opponent |-> Chars("Princeton"), is_home |-> TRUE],
     [row |-> RowSatPrincetonLinked, opponent |-> Chars("Princeton"), is_home |-> TRUE]}

C16_DirectionPrefix ==
    \A c \in DirectionRows :
        (Scraped /\ args.response = Page("table.Table", "", <<c.row>>)) =>
            /\ Len(ret.value) = 1
            /\ ret.value[1].opponent = c.opponent
            /\ ret.value[1].is_home = c.is_home

(***************************************************************************)
(* Spec: the service. The calendar is built once at startup, rebuilt by    *)
(* the daily job and by GET /season/<year>, and served by GET /calendar.ics *)
(***************************************************************************)

\* lines 29-36
get_current_season ==
    IF now.month > 2 THEN now.year ELSE now.year - 1

\* lines 575-576: the game has what an event needs
EventReady(game) ==
    /\ game.opponent # <<>>
    /\ game.opponent # UnknownOpponent
    /\ game.start # None

\* lines 587-597
Description(game) ==
    (IF game.broadcast # <<>>
     THEN Chars("Broadcast on: ") \o game.broadcast \o <<"\n">> ELSE <<>>)
    \o (IF game.is_home THEN Chars("Home Game") ELSE Chars("Away Game"))

\* lines 578-598
EventOf(game) ==
    [name |-> game.title, begin |-> game.start, end |-> game.end,
     location |-> game.location, description |-> Description(game)]

\* lines 567-617: the calendar written to CALENDAR_FILE (cal.events is a set)
create_calendar(games) ==
    [tag |-> "ics",
     events |-> {EventOf(games[i]) : i \in {j \in DOMAIN games : EventReady(games[j])}}]

\* the most rows on a page the service fetches
MaxPageRows == 2

SysRowPool == {RowHarvard, RowBrown, RowNoDate}

\* what the fetch of the schedule page can give: a network error, a page
\* without a schedule table, a schedule table of rows
SysResponses ==
    {FetchError, Page("other", "", <<RowHarvard>>)}
    \cup {Page("table.Table", "", rows) : rows \in RowSeqs(SysRowPool, MaxPageRows)}

\* two games a second schedule site lists
BackupGames ==
    <<[title |-> Chars("Harvard at Yale"),
       start |-> datetime(2024, 9, 20, 12, 0),
       end |-> AddDuration(datetime(2024, 9, 20, 12, 0)),
       location |-> Chars("Yale Bowl, New Haven, CT"), broadcast |-> <<>>,
       is_home |-> TRUE, opponent |-> Chars("Harvard"),
       date_str |-> Chars("Sep 20"), time_str |-> Chars("12:00 PM")],
      [title |-> Chars("Yale at Brown"),
       start |-> datetime(2024, 9, 27, 13, 0),
       end |-> AddDuration(datetime(2024, 9, 27, 13, 0)),
       location |-> Chars("Brown venue"), broadcast |-> <<>>,
       is_home |-> FALSE, opponent |-> Chars("Brown"),
       date_str |-> Chars("9/27"), time_str |-> Chars("1:00 PM")]>>

\* what a second schedule site would give when asked: nothing, or its games.
\* The program never asks; the offer is recorded beside each refresh.
BackupOffers == {<<>>, BackupGames}

\* the years asked of GET /season/<year>
SeasonYears == {1999, 2023, 2024, 2030}

SysNows == {Clock(2024, 9), Clock(2025, 2)}

NotAvailable == Chars("Calendar not available")

Init ==
    /\ now \in SysNows
    /\ pc = "startup"
    /\ calfile = NoFile
    /\ before = NoFile
    /\ lastGood = NoFile
    /\ last = NoOp
    /\ args = [fn |-> "none"]
    /\ ret = NotCalled

\* lines 619-626: scrape, then write the calendar of whatever was scraped
update_calendar(trigger, response) ==
    LET Write(games, written) ==
            /\ calfile' = written
            /\ before' = calfile
            /\ lastGood' = IF games # <<>> THEN written ELSE lastGood
            /\ \E backup \in BackupOffers :
                  last' = [op |-> "update_calendar", trigger |-> trigger,
                           season |-> get_current_season, refreshed |-> TRUE,
                           games |-> games, backup |-> backup, status |-> 0,
                           body |-> NoFile]
        Create(games) == Write(games, create_calendar(games))
    IN  Create(scrape_schedule(response))

\* line 806: the initial calendar creation, before the server runs
Startup ==
    /\ pc = "startup"
    /\ \E response \in SysResponses : update_calendar("startup", response)
    /\ pc' = "serving"
    /\ UNCHANGED <<now, args, ret>>

\* lines 809-810: the job of 3 AM
DailyUpdate ==
    /\ pc = "serving"
    /\ \E response \in SysResponses : update_calendar("daily", response)
    /\ UNCHANGED <<now, pc, args, ret>>

\* lines 769-794
set_season(year, response) ==
    LET Answer(refreshed, games, backup, status) ==
            [op |-> "set_season", trigger |-> "manual", season |-> year,
             refreshed |-> refreshed, games |-> games, backup |-> backup,
             status |-> status, body |-> NoFile]
        Write(games, written) ==
            /\ calfile' = written
            /\ before' = calfile
            /\ lastGood' = written
            /\ \E backup \in BackupOffers : last' = Answer(TRUE, games, backup, 200)
        Create(games) ==
            IF games # <<>> THEN Write(games, create_calendar(games))
            ELSE /\ before' = calfile
                 /\ \E backup \in BackupOffers : last' = Answer(TRUE, games, backup, 500)
                 /\ UNCHANGED <<calfile, lastGood>>
    IN  IF year < 2000 \/ year > now.year + 1
        THEN /\ last' = Answer(FALSE, <<>>, <<>>, 400)
             /\ UNCHANGED <<calfile, before, lastGood>>
        ELSE Create(scrape_schedule(response))

SetSeason ==
    /\ pc = "serving"
    /\ \E year \in SeasonYears, response \in SysResponses : set_season(year, response)
    /\ UNCHANGED <<now, pc, args, ret>>

\* lines 628-637
serve_calendar ==
    /\ last' = [op |-> "serve_calendar", trigger |-> "request", season |-> 0,
                refreshed |-> FALSE, games |-> <<>>, backup |-> <<>>,
                status |-> IF calfile = NoFile THEN 500 ELSE 200,
                body |-> IF calfile = NoFile THEN NotAvailable ELSE calfile]
    /\ UNCHANGED <<calfile, before, lastGood>>

ServeCalendar ==
    /\ pc = "serving"
    /\ serve_calendar
    /\ UNCHANGED <<now, pc, args, ret>>

Next == Startup \/ DailyUpdate \/ SetSeason \/ ServeCalendar

Spec == Init /\ [][Next]_vars

\* the last operation was a refresh and no source gave it a game
RefreshFailed == last.refreshed /\ last.games = <<>> /\ last.backup = <<>>

\* C1: a refresh that fails (fetch error, no schedule rows, or every row
\* dropped) leaves the calendar file exactly as it was before the refresh
C1_FailedRefreshKeepsFile == RefreshFailed => calfile = before

\* the last operation wrote the calendar of last.games to the file
Persisted ==
    \/ last.op = "update_calendar"
    \/ last.op = "set_season" /\ last.status = 200

\* the days on which the games of a list start
GameDates(games) ==
    {<<games[i].start.year, games[i].start.month, games[i].start.day>> :
        i \in DOMAIN games}

\* C2: a game list is written to the calendar file only when it is non-empty,
\* has the games its season expects (10), and at least 80% of its games are
\* on distinct dates
C2_PersistedListValidated ==
    Persisted =>
        /\ last.games # <<>>
        /\ Len(last.games) >= 10
        /\ 5 * Cardinality(GameDates(last.games)) >= 4 * Len(last.games)

\* C3: when the primary source gives no usable list and the backup source
\* gives one, the refresh persists the backup's calendar
C3_BackupPersisted ==
    (last.refreshed /\ last.games = <<>> /\ last.backup # <<>>)
        => calfile = create_calendar(last.backup)

\* C4: GET /calendar.ics answers with the calendar of the most recent
\* successful refresh, and with "not available" when there has been none
C4_ServesLastGoodCalendar ==
    last.op = "serve_calendar" =>
        IF lastGood = NoFile
        THEN last.status = 500 /\ last.body = NotAvailable
        ELSE last.status = 200 /\ last.body = lastGood

\* C18: in every scrape the season parse_date_time infers a missing year
\* from is the season of the page fetched, get_current_season() in a default
\* refresh and the year asked for in GET /season/<year>: a game written
\* without a year is dated in that season (its year from August on, the
\* year after before August)
C18_ParseSeasonIsPageSeason ==
    last.refreshed =>
        /\ football_season_year = last.season
        /\ \A i \in DOMAIN last.games :
              last.games[i].start.year =
                  IF last.games[i].start.month >= 8 THEN last.season
                  ELSE last.season + 1

(***************************************************************************)
(* SpecThreads: the threads of the service.  The main thread builds the    *)
(* calendar (line 806), starts the scheduler (line 810) and then serves    *)
(* the requests (line 814); the scheduler thread runs the job of 3 AM.     *)
(* create_calendar (lines 612-614) is two steps on CALENDAR_FILE: open     *)
(* with mode 'w', which truncates it, and the write that close() flushes.  *)
(* pc and args are per thread.                                             *)
(***************************************************************************)
Threads == {"main", "scheduler"}

\* CALENDAR_FILE as open(..., 'w') leaves it: no bytes
EmptyFile == [tag |-> "empty"]

\* the bytes of one calendar written from offset 0 into a longer file that
\* was written after this writer opened it: the end of the longer one stays
Overlaid(written, under) == [tag |-> "overlaid", head |-> written, tail |-> under]

ThreadResponses ==
    {FetchError, Page("table.Table", "", <<RowHarvard>>),
     Page("table.Table", "", <<RowHarvard, RowBrown>>)}

InitThreads ==
    /\ now = Clock(2024, 9)
    /\ pc = [t \in Threads |-> IF t = "main" THEN "startup" ELSE "stopped"]
    /\ args = [t \in Threads |-> [op |-> "none", season |-> 0, games |-> <<>>]]
    /\ calfile = NoFile
    /\ before = NoFile
    /\ lastGood = NoFile
    /\ last = NoOp
    /\ ret = NotCalled

\* lines 621-622: update_calendar has the games of scrape_schedule and calls
\* create_calendar
BeginUpdate(t, trigger, response) ==
    /\ pc' = [pc EXCEPT ![t] = "create"]
    /\ args' = [args EXCEPT ![t] = [op |-> trigger, season |-> get_current_season,
                                    games |-> scrape_schedule(response)]]
    /\ UNCHANGED <<now, calfile, before, lastGood, last, ret>>

\* line 806, in the main thread, before scheduler.start() and app.run()
MainStartup ==
    /\ pc["main"] = "startup"
    /\ \E response \in ThreadResponses : BeginUpdate("main", "startup", response)

\* lines 809-810: the job of 3 AM, in the scheduler's thread
SchedulerJob ==
    /\ pc["scheduler"] = "idle"
    /\ \E response \in ThreadResponses : BeginUpdate("scheduler", "daily", response)

\* lines 775, 788-790: what GET /season/<year> answers
SeasonAnswer(year, refreshed, games, status) ==
    [op |-> "set_season", trigger |-> "manual", season |-> year,
     refreshed |-> refreshed, games |-> games, backup |-> <<>>,
     status |-> status, body |-> NoFile]

\* lines 769-787: GET /season/<year> up to the call of create_calendar
SeasonRequest ==
    LET Answer(year, refreshed, games, status) ==
            SeasonAnswer(year, refreshed, games, status)
        Create(year, games) ==
            IF games # <<>>
            THEN /\ pc' = [pc EXCEPT !["main"] = "create"]
                 /\ args' = [args EXCEPT !["main"] =
                                 [op |-> "set_season", season |-> year, games |-> games]]
                 /\ UNCHANGED last
            ELSE /\ last' = Answer(year, TRUE, games, 500)
                 /\ UNCHANGED <<pc, args>>
    IN  /\ pc["main"] = "idle"
        /\ \E year \in SeasonYears, response \in ThreadResponses :
              IF year < 2000 \/ year > now.year + 1
              THEN last' = Answer(year, FALSE, <<>>, 400) /\ UNCHANGED <<pc, args>>
              ELSE Create(year, scrape_schedule(response))
        /\ UNCHANGED <<now, calfile, before, lastGood, ret>>

\* line 613: open(CALENDAR_FILE, 'w')
OpenFile ==
    \E t \in Threads :
        /\ pc[t] = "create"
        /\ pc' = [pc EXCEPT ![t] = "writing"]
        /\ calfile' = EmptyFile
        /\ UNCHANGED <<now, before, lastGood, last, args, ret>>

\* what the file holds once `written` went in from offset 0: a calendar
\* another thread wrote in the meantime keeps its end when it is the longer
\* one (more events)
FileAfterWrite(written, file) ==
    IF file.tag = "ics" /\ Cardinality(file.events) > Cardinality(written.events)
    THEN Overlaid(written, file)
    ELSE written

\* line 614 and the close of the with block; set_season answers 200 (line
\* 788); the main thread goes on to start the scheduler after the first
\* calendar (line 810)
WriteFile ==
    \E t \in Threads :
        /\ pc[t] = "writing"
        /\ calfile' = FileAfterWrite(create_calendar(args[t].games), calfile)
        /\ pc' = [u \in Threads |->
                    IF u = t THEN "idle"
                    ELSE IF args[t].op = "startup" THEN "idle"
                    ELSE pc[u]]
        /\ args' = [args EXCEPT ![t] = [op |-> "none", season |-> 0, games |-> <<>>]]
        /\ last' = IF args[t].op = "set_season"
                   THEN SeasonAnswer(args[t].season, TRUE, args[t].games, 200)
                   ELSE last
        /\ UNCHANGED <<now, before, lastGood, ret>>

\* lines 628-637: GET /calendar.ics, served by the main thread
ServeRequest ==
    /\ pc["main"] = "idle"
    /\ serve_calendar
    /\ UNCHANGED <<now, pc, args, ret>>

NextThreads ==
    MainStartup \/ SchedulerJob \/ SeasonRequest \/ OpenFile \/ WriteFile
    \/ ServeRequest

SpecThreads == InitThreads /\ [][NextThreads]_vars

\* C17: at most one refresh is in flight at any time: the startup refresh,
\* the daily job and the refreshes of GET /season/<year> never have two
\* writes of the calendar file open at once
C17_OneWriteInFlight == Cardinality({t \in Threads : pc[t] = "writing"}) <= 1

\* the complete outputs of create_calendar
CompleteCalendars ==
    {create_calendar(scrape_schedule(response)) : response \in ThreadResponses}

\* C19: GET /calendar.ics never sees a partly written file: under every
\* interleaving with a refresh the content served is the complete output of
\* one create_calendar call
C19_ServesCompleteFile ==
    (last.op = "serve_calendar" /\ last.status = 200) =>
        last.body \in CompleteCalendars

====
